---- MODULE Spec2Model ----
(***************************************************************************)
(* A model of the SECS spelling and grammar correction pipeline:           *)
(*   - user_preprocess.py: tokenization (preprocess_user_input) and the    *)
(*     display grammar pass (apply_display_grammar);                       *)
(*   - app.py: flagging of spelling errors, highlighting, and the ranking  *)
(*     of suggestions by edit distance.                                    *)
(* Python indices are 0-based; TLA+ sequences are 1-based.  The cursor i   *)
(* and the entries of grammar_indices keep the Python (0-based) values,    *)
(* and At(s, k) reads the Python element s[k].                             *)
(***************************************************************************)
EXTENDS Integers, Sequences, FiniteSets, TLC

VARIABLES
    tokens,           \* apply_display_grammar: the argument (lemma sequence)
    display_tokens,   \* apply_display_grammar: the output list being built
    grammar_indices,  \* apply_display_grammar: corrected positions, in append order
    i,                \* apply_display_grammar: the input cursor
    pc,               \* position of the run
    second,           \* the result of applying the function to its own output
    raw_text,         \* preprocess_user_input: the argument
    text,             \* preprocess_user_input: the local text (lowercased)
    scan,             \* re.findall: the position the next match is searched from
    found,            \* re.findall: the matches so far, in order
    tpc,              \* position of the tokenizer run
    user_lemmas,      \* app: the lemma sequence of user_input
    WORD_FREQ,        \* app: the loaded word frequency table
    candidates,       \* app: the suggestion list the detector attaches to a word
    display_version,  \* app: the display tokens of user_input
    shown_indices,    \* app: the handler's grammar_indices
    errors,           \* app: the detector's result
    spelling_words,   \* app: the words of errors
    suggestion_map,   \* app: word -> suggestions sorted by edit distance
    highlighted_text, \* app: one entry per display word
    details,          \* app: the expanders written, each with its lines
    hi,               \* app: index of the highlight loop
    di,               \* app: index of the details loop
    sj,               \* app: index of the suggestion loop of an expander
    apc               \* app: position of the handler

grammarVars == <<tokens, display_tokens, grammar_indices, i, pc, second>>
tokenizerVars == <<raw_text, text, scan, found, tpc>>
appInputs == <<user_lemmas, WORD_FREQ, candidates>>
appChecked == <<display_version, shown_indices, errors, spelling_words, suggestion_map>>
appVars == <<appInputs, appChecked, highlighted_text, details, hi, di, sj, apc>>
vars == <<grammarVars, tokenizerVars, appVars>>

\* ------------------------------------------------------------------ bounds

MaxLen == 3
MaxTextLen == 4
MaxInput == 2
MaxSuggestions == 3

\* ------------------------------------------------------------ fixed tables

AUX_VERBS == {"am", "is", "are", "was", "were", "has", "have", "had"}

BASE_VERB_TO_ING ==
    [be |-> "being", have |-> "having", do |-> "doing", go |-> "going",
     rise |-> "rising", come |-> "coming", happen |-> "happening",
     move |-> "moving", determine |-> "determining", use |-> "using"]

IRREGULAR_PAST ==
    [move |-> "moved", go |-> "gone", come |-> "come", rise |-> "risen",
     be |-> "been", have |-> "had", do |-> "done"]

FUNCTION_WORDS ==
    {"this", "that", "a", "an", "the", "and", "or", "of", "in", "on", "for",
     "to", "with", "by", "at"}

\* The set literal of the present participle rule.
BE_FORMS == {"am", "is", "are", "was", "were"}

\* The set literal of the past participle rule.
HAVE_FORMS == {"has", "have", "had"}

Range(f) == {f[x] : x \in DOMAIN f}

\* Words that no rule reads: they are no key of a table, no auxiliary verb and
\* not the negator.  Two present participles and a word outside every table
\* stand for them as inputs; every participle of the tables also reaches the
\* function as an input when it is applied to its own output.
OtherWords == {"having", "rising", "year"}

\* The lemmas an input is drawn from: the auxiliary verbs, the negator, every
\* key of the two verb tables, every past participle, and the other words.
Lemmas ==
    AUX_VERBS \cup {"not"} \cup DOMAIN BASE_VERB_TO_ING \cup DOMAIN IRREGULAR_PAST
    \cup Range(IRREGULAR_PAST) \cup OtherWords

SeqsUpTo(S, n) == UNION {[1..k -> S] : k \in 0..n}

\* ------------------------------------------------- apply_display_grammar

\* Python s[k]
At(s, k) == s[k + 1]

\* prev = display_tokens[-1] if i > 0 else ""
Prev(d, k) == IF k > 0 THEN d[Len(d)] ELSE ""

\* IRREGULAR_PAST.get(tok, tok)
IrregularPastGet(tok) ==
    IF tok \in DOMAIN IRREGULAR_PAST THEN IRREGULAR_PAST[tok] ELSE tok

\* The conditions of the three rule branches, in the order the loop tests them.
IsProgressive(toks, d, k) ==
    Prev(d, k) \in BE_FORMS /\ At(toks, k) \in DOMAIN BASE_VERB_TO_ING

IsPerfect(toks, d, k) ==
    ~IsProgressive(toks, d, k) /\ Prev(d, k) \in HAVE_FORMS

IsNegatedPerfect(toks, d, k) ==
    IsPerfect(toks, d, k) /\ At(toks, k) = "not" /\ k + 1 < Len(toks)

IsPlainPerfect(toks, d, k) ==
    IsPerfect(toks, d, k) /\ ~(At(toks, k) = "not" /\ k + 1 < Len(toks))

IsDefault(toks, d, k) ==
    ~IsProgressive(toks, d, k) /\ ~(Prev(d, k) \in HAVE_FORMS)

\* Mutant: the present participle rule appends the raw lemma.
ProgressiveStep_RawLemma(toks, d, g, k) ==
    [d |-> Append(d, At(toks, k)),
     g |-> Append(g, k),
     i |-> k + 1]

\* Mutant: the present participle rule does not record the position.
ProgressiveStep_Unrecorded(toks, d, g, k) ==
    [d |-> Append(d, BASE_VERB_TO_ING[At(toks, k)]),
     g |-> g,
     i |-> k + 1]

\* The bodies of the branches: the new (display_tokens, grammar_indices, i).
ProgressiveStep(toks, d, g, k) ==
    [d |-> Append(d, BASE_VERB_TO_ING[At(toks, k)]),
     g |-> Append(g, k),
     i |-> k + 1]

\* Mutant: the negation branch records the position of "not".
NegatedPerfectStep_RecordsNot(toks, d, g, k) ==
    [d |-> Append(Append(d, At(toks, k)), IrregularPastGet(At(toks, k + 1))),
     g |-> Append(g, k),
     i |-> k + 2]

\* Mutant: the negation branch does not append "not".
NegatedPerfectStep_DropsNot(toks, d, g, k) ==
    [d |-> Append(d, IrregularPastGet(At(toks, k + 1))),
     g |-> Append(g, k + 1),
     i |-> k + 2]

\* Mutant: the negation branch advances the cursor by one.
NegatedPerfectStep_AdvancesOne(toks, d, g, k) ==
    [d |-> Append(Append(d, At(toks, k)), IrregularPastGet(At(toks, k + 1))),
     g |-> Append(g, k + 1),
     i |-> k + 1]

NegatedPerfectStep(toks, d, g, k) ==
    [d |-> Append(Append(d, At(toks, k)), IrregularPastGet(At(toks, k + 1))),
     g |-> Append(g, k + 1),
     i |-> k + 2]

\* Mutant: the perfect rule records the position only when the form changed.
PlainPerfectStep_RecordsChanges(toks, d, g, k) ==
    [d |-> Append(d, IrregularPastGet(At(toks, k))),
     g |-> IF IrregularPastGet(At(toks, k)) # At(toks, k) THEN Append(g, k) ELSE g,
     i |-> k + 1]

PlainPerfectStep(toks, d, g, k) ==
    [d |-> Append(d, IrregularPastGet(At(toks, k))),
     g |-> Append(g, k),
     i |-> k + 1]

DefaultStep(toks, d, g, k) ==
    [d |-> Append(d, At(toks, k)),
     g |-> g,
     i |-> k + 1]

\* One iteration of the while loop.
LoopBody(toks, d, g, k) ==
    IF IsProgressive(toks, d, k) THEN ProgressiveStep(toks, d, g, k)
    ELSE IF IsNegatedPerfect(toks, d, k) THEN NegatedPerfectStep(toks, d, g, k)
    ELSE IF IsPlainPerfect(toks, d, k) THEN PlainPerfectStep(toks, d, g, k)
    ELSE DefaultStep(toks, d, g, k)

RECURSIVE RunLoop(_, _, _, _)
RunLoop(toks, d, g, k) ==
    IF k < Len(toks)
    THEN LET r == LoopBody(toks, d, g, k) IN RunLoop(toks, r.d, r.g, r.i)
    ELSE [display_tokens |-> d, grammar_indices |-> g]

\* The function as a whole: its return value for an argument.
apply_display_grammar(toks) == RunLoop(toks, <<>>, <<>>, 0)

NoResult == [display_tokens |-> <<>>, grammar_indices |-> <<>>]

TokenizerIdle ==
    /\ raw_text = <<>>
    /\ text = <<>>
    /\ scan = 0
    /\ found = <<>>
    /\ tpc = "idle"

AppIdle ==
    /\ user_lemmas = <<>>
    /\ WORD_FREQ = <<>>
    /\ candidates = <<>>
    /\ display_version = <<>>
    /\ shown_indices = <<>>
    /\ errors = <<>>
    /\ spelling_words = {}
    /\ suggestion_map = <<>>
    /\ highlighted_text = <<>>
    /\ details = <<>>
    /\ hi = 0
    /\ di = 0
    /\ sj = 0
    /\ apc = "idle"

Init ==
    /\ tokens \in SeqsUpTo(Lemmas, MaxLen)
    /\ display_tokens = <<>>
    /\ grammar_indices = <<>>
    /\ i = 0
    /\ pc = "loop"
    /\ second = NoResult
    /\ TokenizerIdle
    /\ AppIdle

Take(r) ==
    /\ display_tokens' = r.d
    /\ grammar_indices' = r.g
    /\ i' = r.i
    /\ UNCHANGED <<tokens, pc, second, tokenizerVars, appVars>>

AtLoopHead == pc = "loop" /\ i < Len(tokens)

Progressive ==
    /\ AtLoopHead
    /\ IsProgressive(tokens, display_tokens, i)
    /\ Take(ProgressiveStep(tokens, display_tokens, grammar_indices, i))

NegatedPerfect ==
    /\ AtLoopHead
    /\ IsNegatedPerfect(tokens, display_tokens, i)
    /\ Take(NegatedPerfectStep(tokens, display_tokens, grammar_indices, i))

PlainPerfect ==
    /\ AtLoopHead
    /\ IsPlainPerfect(tokens, display_tokens, i)
    /\ Take(PlainPerfectStep(tokens, display_tokens, grammar_indices, i))

Default ==
    /\ AtLoopHead
    /\ IsDefault(tokens, display_tokens, i)
    /\ Take(DefaultStep(tokens, display_tokens, grammar_indices, i))

\* return display_tokens, grammar_indices
Return ==
    /\ pc = "loop"
    /\ ~(i < Len(tokens))
    /\ pc' = "returned"
    /\ UNCHANGED <<tokens, display_tokens, grammar_indices, i, second, tokenizerVars, appVars>>

\* The returned display sequence is given to the function as a fresh input.
Reapply ==
    /\ pc = "returned"
    /\ second' = apply_display_grammar(display_tokens)
    /\ pc' = "reapplied"
    /\ UNCHANGED <<tokens, display_tokens, grammar_indices, i, tokenizerVars, appVars>>

Next ==
    \/ Progressive
    \/ NegatedPerfect
    \/ PlainPerfect
    \/ Default
    \/ Return
    \/ Reapply

Spec == Init /\ [][Next]_vars

\* ------------------------------------------------- preprocess_user_input

\* A text is a sequence of characters.  The characters stand for the classes
\* the tokenizer tells apart: lowercase ASCII letters, an uppercase ASCII
\* letter, a digit, the underscore, a non-ASCII letter, a symbol, a blank.
Characters == {"a", "b", "A", "1", "_", "é", "%", " "}

\* str.lower() on one character
LowerChar(c) == IF c = "A" THEN "a" ELSE c

\* text.lower()
Lower(s) == [n \in 1..Len(s) |-> LowerChar(s[n])]

\* the character class [a-z]
IsAsciiLower(c) == c \in {"a", "b"}

\* \w of a str pattern: letters and digits of any script, and the underscore
IsWordChar(c) == c \in {"a", "b", "A", "é", "1", "_"}

\* Mutant: the pattern has no \b (it is [a-z]+).
Boundary_Absent(s, p) == TRUE

\* \b at position p (between the Python elements p - 1 and p): exactly one of
\* the two neighbours is a word character; outside the text there is none.
Boundary(s, p) ==
    LET before == p > 0 /\ IsWordChar(At(s, p - 1))
        after == p < Len(s) /\ IsWordChar(At(s, p))
    IN before # after

\* The ends q > p for which s[p:q] is in [a-z]+
LetterEnds(s, p) ==
    {q \in (p + 1)..Len(s) : \A k \in p..(q - 1) : IsAsciiLower(At(s, k))}

\* The ends at which \b[a-z]+\b matches from position p.
MatchEnds(s, p) ==
    IF Boundary(s, p) THEN {q \in LetterEnds(s, p) : Boundary(s, q)} ELSE {}

Max(S) == CHOOSE x \in S : \A y \in S : y <= x

\* Python s[p:q]
Slice(s, p, q) == SubSeq(s, p + 1, q)

GrammarIdle ==
    /\ tokens = <<>>
    /\ display_tokens = <<>>
    /\ grammar_indices = <<>>
    /\ i = 0
    /\ pc = "idle"
    /\ second = NoResult

TokenizerInit ==
    /\ raw_text \in SeqsUpTo(Characters, MaxTextLen)
    /\ text = raw_text
    /\ scan = 0
    /\ found = <<>>
    /\ tpc = "lower"
    /\ GrammarIdle
    /\ AppIdle

\* text = text.lower()
LowerText ==
    /\ tpc = "lower"
    /\ text' = Lower(text)
    /\ tpc' = "findall"
    /\ UNCHANGED <<raw_text, scan, found, grammarVars, appVars>>

\* re.findall: the pattern matches at the scan position.  + is greedy: the
\* longest end is tried first, and the search resumes at the end of the match.
MatchHere ==
    /\ tpc = "findall"
    /\ scan < Len(text)
    /\ MatchEnds(text, scan) # {}
    /\ LET q == Max(MatchEnds(text, scan)) IN
          /\ found' = Append(found, Slice(text, scan, q))
          /\ scan' = q
    /\ UNCHANGED <<raw_text, text, tpc, grammarVars, appVars>>

\* re.findall: no match at the scan position; the search moves on by one.
NoMatchHere ==
    /\ tpc = "findall"
    /\ scan < Len(text)
    /\ MatchEnds(text, scan) = {}
    /\ scan' = scan + 1
    /\ UNCHANGED <<raw_text, text, found, tpc, grammarVars, appVars>>

\* re.findall returns: tokens = the matches
FindAllDone ==
    /\ tpc = "findall"
    /\ ~(scan < Len(text))
    /\ tpc' = "tokens"
    /\ UNCHANGED <<raw_text, text, scan, found, grammarVars, appVars>>

TokenizerNext ==
    \/ LowerText
    \/ MatchHere
    \/ NoMatchHere
    \/ FindAllDone

SpecTokenizer == TokenizerInit /\ [][TokenizerNext]_vars

\* ------------------------------------------------------------------ app.py

\* The words of the handler's inputs: function words ("a", "at"), auxiliary
\* verbs ("am", "is"), a verb of the tables ("go") and other words.
AppWords == {"a", "at", "am", "is", "go", "as", "ta", "sa"}

\* The characters of a word.
Chars ==
    "a" :> <<"a">> @@ "at" :> <<"a", "t">> @@ "am" :> <<"a", "m">> @@
    "is" :> <<"i", "s">> @@ "go" :> <<"g", "o">> @@ "as" :> <<"a", "s">> @@
    "ta" :> <<"t", "a">> @@ "sa" :> <<"s", "a">>

Min(S) == CHOOSE x \in S : \A y \in S : x <= y

\* Levenshtein distance of two character sequences: unit cost for an
\* insertion, a deletion and a substitution, no transposition.
RECURSIVE Levenshtein(_, _)
Levenshtein(a, b) ==
    IF Len(a) = 0 THEN Len(b)
    ELSE IF Len(b) = 0 THEN Len(a)
    ELSE Min({Levenshtein(Tail(a), b) + 1,
              Levenshtein(a, Tail(b)) + 1,
              Levenshtein(Tail(a), Tail(b)) + (IF Head(a) = Head(b) THEN 0 ELSE 1)})

\* nltk.metrics.edit_distance(s1, s2) with its default arguments
edit_distance(s1, s2) == Levenshtein(Chars[s1], Chars[s2])

\* sorted() is stable: an element goes behind every element whose key is not
\* greater than its own.
RECURSIVE InsertByDistance(_, _, _)
InsertByDistance(word, sorted, w) ==
    IF sorted = <<>> THEN <<w>>
    ELSE IF edit_distance(word, Head(sorted)) <= edit_distance(word, w)
         THEN <<Head(sorted)>> \o InsertByDistance(word, Tail(sorted), w)
         ELSE <<w>> \o sorted

RECURSIVE SortPrefix(_, _, _)
SortPrefix(word, list, n) ==
    IF n = 0 THEN <<>>
    ELSE InsertByDistance(word, SortPrefix(word, list, n - 1), list[n])

\* Mutant: the list is not sorted.
SortedByDistance_Unsorted(word, list) == list

\* the order of Python strings
RECURSIVE LexLess(_, _)
LexLess(a, b) ==
    LET rank == "a" :> 1 @@ "g" :> 2 @@ "i" :> 3 @@ "m" :> 4 @@ "o" :> 5 @@
                "s" :> 6 @@ "t" :> 7
    IN IF Len(b) = 0 THEN FALSE
       ELSE IF Len(a) = 0 THEN TRUE
       ELSE IF Head(a) # Head(b) THEN rank[Head(a)] < rank[Head(b)]
       ELSE LexLess(Tail(a), Tail(b))

RECURSIVE InsertByDistanceThenWord(_, _, _)
InsertByDistanceThenWord(word, sorted, w) ==
    IF sorted = <<>> THEN <<w>>
    ELSE IF \/ edit_distance(word, Head(sorted)) < edit_distance(word, w)
            \/ /\ edit_distance(word, Head(sorted)) = edit_distance(word, w)
               /\ ~LexLess(Chars[w], Chars[Head(sorted)])
         THEN <<Head(sorted)>> \o InsertByDistanceThenWord(word, Tail(sorted), w)
         ELSE <<w>> \o sorted

RECURSIVE SortPrefixThenWord(_, _, _)
SortPrefixThenWord(word, list, n) ==
    IF n = 0 THEN <<>>
    ELSE InsertByDistanceThenWord(word, SortPrefixThenWord(word, list, n - 1), list[n])

\* Mutant: the sort key is (edit distance, word).
SortedByDistance_ThenWord(word, list) == SortPrefixThenWord(word, list, Len(list))

\* sorted(err.get('suggestions', []), key=lambda w: edit_distance(err['word'], w))
SortedByDistance(word, list) == SortPrefix(word, list, Len(list))

\* vocab = set(word_freq.keys())
VOCAB == DOMAIN WORD_FREQ

\* The lemmas the detector flags, in order of first occurrence: those that are
\* not in the vocabulary, no function word and no auxiliary verb.
RECURSIVE FlaggedLemmas(_, _)
FlaggedLemmas(lemmas, seen) ==
    IF lemmas = <<>> THEN <<>>
    ELSE LET w == Head(lemmas) IN
         IF w \notin VOCAB /\ w \notin FUNCTION_WORDS /\ w \notin AUX_VERBS /\ w \notin seen
         THEN <<w>> \o FlaggedLemmas(Tail(lemmas), seen \cup {w})
         ELSE FlaggedLemmas(Tail(lemmas), seen)

\* detect_errors: one result per flagged lemma, classified as spelling, with
\* the candidate list of the ranker.
detect_errors(lemmas) ==
    LET flagged == FlaggedLemmas(lemmas, {}) IN
    [n \in 1..Len(flagged) |->
        [word |-> flagged[n], type |-> "spelling", suggestions |-> candidates[flagged[n]]]]

\* display_tokens: the grammar pass over the lemma sequence of the input
display_tokens_of(lemmas) == apply_display_grammar(lemmas)

\* {err['word'] for err in errors}
SpellingWords(errs) == {errs[n].word : n \in 1..Len(errs)}

\* The loop that fills suggestion_map: a later error with the same word
\* overwrites an earlier one.
RECURSIVE SuggestionMap(_, _)
SuggestionMap(errs, n) ==
    IF n = 0 THEN <<>>
    ELSE (errs[n].word :> SortedByDistance(errs[n].word, errs[n].suggestions))
         @@ SuggestionMap(errs, n - 1)

\* suggestion_map.get(lw, [])
SuggestionsFor(lw) == IF lw \in DOMAIN suggestion_map THEN suggestion_map[lw] ELSE <<>>

\* next((err['type'] for err in errors if err['word'] == lw), "grammar")
ErrTypeOf(lw) ==
    IF \E n \in 1..Len(errors) : errors[n].word = lw
    THEN errors[Min({n \in 1..Len(errors) : errors[n].word = lw})].type
    ELSE "grammar"

\* Mutant: the two tests of the red branch are joined by "or".
IsRed_Or(lw, sw) == lw \in sw \/ lw \notin FUNCTION_WORDS

\* lw in spelling_words and lw not in FUNCTION_WORDS
IsRed(lw, sw) == lw \in sw /\ lw \notin FUNCTION_WORDS

\* i in grammar_indices
IsCorrected(k) == \E n \in 1..Len(shown_indices) : shown_indices[n] = k

\* Inputs with a varied text and vocabulary: the detector attaches the same
\* candidate list to every word it flags.
FlagInputs ==
    /\ user_lemmas \in SeqsUpTo(AppWords, MaxInput)
    /\ \E V \in SUBSET {"at", "is", "as", "ta"} : WORD_FREQ = [w \in V |-> 1]
    /\ candidates = [w \in AppWords |-> <<"at", "a">>]

\* Inputs with one lemma and varied candidate lists and frequencies.
RankInputs ==
    /\ \E w \in {"ta", "sa"} : user_lemmas = <<w>>
    /\ WORD_FREQ \in [{"a", "at", "as", "sa"} -> {1, 2}]
    /\ \E list \in SeqsUpTo({"a", "at", "as", "sa"}, MaxSuggestions) :
          candidates = [w \in AppWords |-> list]

AppInit ==
    /\ FlagInputs \/ RankInputs
    /\ display_version = <<>>
    /\ shown_indices = <<>>
    /\ errors = <<>>
    /\ spelling_words = {}
    /\ suggestion_map = <<>>
    /\ highlighted_text = <<>>
    /\ details = <<>>
    /\ hi = 0
    /\ di = 0
    /\ sj = 0
    /\ apc = "check"
    /\ GrammarIdle
    /\ TokenizerIdle

\* The button handler up to the highlight loop: the display tokens, the
\* detector's errors, spelling_words and suggestion_map.
CheckText ==
    /\ apc = "check"
    /\ display_version' = display_tokens_of(user_lemmas).display_tokens
    /\ shown_indices' = display_tokens_of(user_lemmas).grammar_indices
    /\ errors' = detect_errors(user_lemmas)
    /\ spelling_words' = SpellingWords(errors')
    /\ suggestion_map' = SuggestionMap(errors', Len(errors'))
    /\ apc' = "highlight"
    /\ UNCHANGED <<appInputs, highlighted_text, details, hi, di, sj, grammarVars, tokenizerVars>>

HighlightWord(colour) ==
    /\ highlighted_text' =
          Append(highlighted_text, [word |-> At(display_version, hi), colour |-> colour])
    /\ hi' = hi + 1
    /\ UNCHANGED <<appInputs, appChecked, details, di, sj, apc, grammarVars, tokenizerVars>>

HighlightRed ==
    /\ apc = "highlight"
    /\ hi < Len(display_version)
    /\ IsRed(At(display_version, hi), spelling_words)
    /\ HighlightWord("red")

HighlightGreen ==
    /\ apc = "highlight"
    /\ hi < Len(display_version)
    /\ ~IsRed(At(display_version, hi), spelling_words)
    /\ IsCorrected(hi)
    /\ HighlightWord("green")

HighlightPlain ==
    /\ apc = "highlight"
    /\ hi < Len(display_version)
    /\ ~IsRed(At(display_version, hi), spelling_words)
    /\ ~IsCorrected(hi)
    /\ HighlightWord("plain")

\* st.markdown(" ".join(highlighted_text)), and the test of "if not errors"
ShowHighlighted ==
    /\ apc = "highlight"
    /\ ~(hi < Len(display_version))
    /\ apc' = IF errors = <<>> THEN "no_errors" ELSE "details"
    /\ UNCHANGED <<appInputs, appChecked, highlighted_text, details, hi, di, sj,
                   grammarVars, tokenizerVars>>

\* st.success("No spelling errors detected!")
NoErrors ==
    /\ apc = "no_errors"
    /\ apc' = "done"
    /\ UNCHANGED <<appInputs, appChecked, highlighted_text, details, hi, di, sj,
                   grammarVars, tokenizerVars>>

\* The details loop: a display word that is neither in spelling_words nor corrected.
SkipWord ==
    /\ apc = "details"
    /\ di < Len(display_version)
    /\ ~(At(display_version, di) \in spelling_words \/ IsCorrected(di))
    /\ di' = di + 1
    /\ UNCHANGED <<appInputs, appChecked, highlighted_text, details, hi, sj, apc,
                   grammarVars, tokenizerVars>>

\* The details loop: the expander of a display word is opened.
OpenExpander ==
    /\ apc = "details"
    /\ di < Len(display_version)
    /\ At(display_version, di) \in spelling_words \/ IsCorrected(di)
    /\ LET lw == At(display_version, di) IN
          details' = Append(details,
              [word |-> lw,
               err_type |-> ErrTypeOf(lw),
               suggestions |-> SuggestionsFor(lw),
               lines |-> <<>>])
    /\ sj' = 0
    /\ apc' = "expander"
    /\ UNCHANGED <<appInputs, appChecked, highlighted_text, hi, di, grammarVars, tokenizerVars>>

Expander == details[Len(details)]

\* for s in suggestions: dist = edit_distance(lw, s); one line is written
EmitSuggestion ==
    /\ apc = "expander"
    /\ sj < Len(Expander.suggestions)
    /\ LET s == At(Expander.suggestions, sj)
           line == [s |-> s, dist |-> edit_distance(Expander.word, s)]
       IN details' = [details EXCEPT ![Len(details)].lines = Append(@, line)]
    /\ sj' = sj + 1
    /\ UNCHANGED <<appInputs, appChecked, highlighted_text, hi, di, apc, grammarVars, tokenizerVars>>

\* st.info("No suitable suggestions found.")
NoSuggestions ==
    /\ apc = "expander"
    /\ Expander.suggestions = <<>>
    /\ di' = di + 1
    /\ apc' = "details"
    /\ UNCHANGED <<appInputs, appChecked, highlighted_text, details, hi, sj,
                   grammarVars, tokenizerVars>>

\* the suggestion loop of an expander ends
CloseExpander ==
    /\ apc = "expander"
    /\ Expander.suggestions # <<>>
    /\ ~(sj < Len(Expander.suggestions))
    /\ di' = di + 1
    /\ apc' = "details"
    /\ UNCHANGED <<appInputs, appChecked, highlighted_text, details, hi, sj,
                   grammarVars, tokenizerVars>>

DetailsDone ==
    /\ apc = "details"
    /\ ~(di < Len(display_version))
    /\ apc' = "done"
    /\ UNCHANGED <<appInputs, appChecked, highlighted_text, details, hi, di, sj,
                   grammarVars, tokenizerVars>>

AppNext ==
    \/ CheckText
    \/ HighlightRed
    \/ HighlightGreen
    \/ HighlightPlain
    \/ ShowHighlighted
    \/ NoErrors
    \/ SkipWord
    \/ OpenExpander
    \/ EmitSuggestion
    \/ NoSuggestions
    \/ CloseExpander
    \/ DetailsDone

SpecApp == AppInit /\ [][AppNext]_vars

\* ------------------------------------------- claims: apply_display_grammar

\* The last token written to the display sequence ("" when there is none).
LastEmitted == IF Len(display_tokens) > 0 THEN display_tokens[Len(display_tokens)] ELSE ""

\* The past participle of a lemma as the claims state it: the table's entry,
\* or the lemma itself when it has none.
PastParticipleOf(lemma) ==
    IF lemma \in {"move", "go", "come", "rise", "be", "have", "do"}
    THEN IRREGULAR_PAST[lemma] ELSE lemma

Recorded == {grammar_indices[n] : n \in 1..Len(grammar_indices)}

\* C1: at a loop head with i > 0, when the last token written to the display
\* sequence is one of am/is/are/was/were and the lemma at i is a key of
\* BASE_VERB_TO_ING, the iteration appends BASE_VERB_TO_ING[lemma] (and nothing
\* else), records i, and advances the cursor by exactly one.
C1_ProgressiveRule ==
    [][ ( /\ AtLoopHead
          /\ i > 0
          /\ LastEmitted \in {"am", "is", "are", "was", "were"}
          /\ At(tokens, i) \in DOMAIN BASE_VERB_TO_ING )
        => ( /\ display_tokens' = Append(display_tokens, BASE_VERB_TO_ING[At(tokens, i)])
             /\ grammar_indices' = Append(grammar_indices, i)
             /\ i' = i + 1 ) ]_vars

\* C1 witness: a participle stands after a BE form, at a recorded position,
\* where the input holds the base verb.
C1_Witness ==
    \E n \in 2..Len(display_tokens) :
        /\ display_tokens[n - 1] \in {"am", "is", "are", "was", "were"}
        /\ tokens[n] \in DOMAIN BASE_VERB_TO_ING
        /\ display_tokens[n] = BASE_VERB_TO_ING[tokens[n]]
        /\ display_tokens[n] # tokens[n]
        /\ (n - 1) \in Recorded

\* C2: at a loop head where the last token written is one of has/have/had, the
\* lemma at i is "not" and a lemma follows it, the iteration appends "not" and
\* then the past participle of the following lemma, records the output position
\* of the participle (i + 1, the last position written) and not that of "not",
\* and advances the cursor by exactly two.
C2_NegatedPerfectRule ==
    [][ ( /\ AtLoopHead
          /\ i > 0
          /\ LastEmitted \in {"has", "have", "had"}
          /\ At(tokens, i) = "not"
          /\ i + 1 < Len(tokens) )
        => ( /\ display_tokens' =
                  display_tokens \o <<"not", PastParticipleOf(At(tokens, i + 1))>>
             /\ grammar_indices' = Append(grammar_indices, i + 1)
             /\ i + 1 = Len(display_tokens') - 1
             /\ i' = i + 2 ) ]_vars

\* C2 witness: "not" and an irregular participle stand after a HAVE form; the
\* participle's position is recorded and the position of "not" is not.
C2_Witness ==
    \E n \in 2..(Len(display_tokens) - 1) :
        /\ display_tokens[n - 1] \in {"has", "have", "had"}
        /\ display_tokens[n] = "not"
        /\ tokens[n + 1] \in DOMAIN IRREGULAR_PAST
        /\ display_tokens[n + 1] = IRREGULAR_PAST[tokens[n + 1]]
        /\ display_tokens[n + 1] # tokens[n + 1]
        /\ n \in Recorded
        /\ (n - 1) \notin Recorded
        /\ i = n + 1

\* C3: at a loop head where the last token written is one of has/have/had and
\* the negation branch does not apply (the lemma is not "not", or it is the last
\* lemma), the iteration appends the past participle of the lemma (the lemma
\* itself when it has no entry), records i even when the form is unchanged, and
\* advances the cursor by exactly one.
C3_PlainPerfectRule ==
    [][ ( /\ AtLoopHead
          /\ i > 0
          /\ LastEmitted \in {"has", "have", "had"}
          /\ ~(At(tokens, i) = "not" /\ i + 1 < Len(tokens)) )
        => ( /\ display_tokens' = Append(display_tokens, PastParticipleOf(At(tokens, i)))
             /\ grammar_indices' = Append(grammar_indices, i)
             /\ i' = i + 1 ) ]_vars

\* C3 witness: "had" was written for the lemma "have" after a HAVE form, and
\* the rule fired again on the next lemma, which has no entry: the copy is
\* recorded all the same.
C3_Witness ==
    \E n \in 2..(Len(display_tokens) - 1) :
        /\ display_tokens[n - 1] \in {"has", "have", "had"}
        /\ tokens[n] = "have"
        /\ display_tokens[n] = "had"
        /\ tokens[n + 1] \notin DOMAIN IRREGULAR_PAST
        /\ tokens[n + 1] # "not"
        /\ display_tokens[n + 1] = tokens[n + 1]
        /\ {n - 1, n} \subseteq Recorded

\* C4: at every loop head the number of display tokens equals the cursor i;
\* the returned display sequence is as long as the input; and every recorded
\* index is a valid index of the display sequence, at which the rewritten form
\* of the input lemma of that position stands.
C4_PositionAlignment ==
    /\ pc = "loop" => Len(display_tokens) = i
    /\ pc # "loop" => Len(display_tokens) = Len(tokens)
    /\ \A n \in 1..Len(grammar_indices) :
          LET idx == grammar_indices[n] IN
          /\ 0 <= idx
          /\ idx < Len(display_tokens)
          /\ idx < Len(tokens)
          /\ \/ /\ At(tokens, idx) \in DOMAIN BASE_VERB_TO_ING
                /\ At(display_tokens, idx) = BASE_VERB_TO_ING[At(tokens, idx)]
             \/ At(display_tokens, idx) = PastParticipleOf(At(tokens, idx))

\* C4 witness: the function returned for an input that took the negation branch.
C4_Witness ==
    /\ pc = "returned"
    /\ Len(tokens) = MaxLen
    /\ \E n \in 2..(Len(tokens) - 1) :
          /\ display_tokens[n - 1] \in {"has", "have", "had"}
          /\ tokens[n] = "not"
          /\ n \in Recorded
          /\ (n - 1) \notin Recorded

\* C5: applying the function to the display sequence it returned gives that
\* same display sequence.
C5_Idempotent ==
    pc = "reapplied" => second.display_tokens = display_tokens

\* C5 witness: the second application is done on an output in which the first
\* application wrote "not" and then "had" for the lemma "have".
C5_Witness ==
    /\ pc = "reapplied"
    /\ display_tokens # tokens
    /\ second.grammar_indices # <<>>
    /\ \E n \in 2..Len(tokens) :
          tokens[n] = "have" /\ display_tokens[n] = "had" /\ display_tokens[n - 1] = "not"

\* C10: every display position that is not recorded holds the input lemma of
\* that position verbatim; the first token is always copied and never recorded.
C10_FrameOutsideRecorded ==
    /\ \A n \in 1..Len(display_tokens) :
          (n - 1) \notin Recorded =>
              n <= Len(tokens) /\ display_tokens[n] = tokens[n]
    /\ Len(display_tokens) > 0 =>
          display_tokens[1] = tokens[1] /\ 0 \notin Recorded

\* C10 witness: the function returned an output in which a lemma without a
\* present participle was copied, unrecorded, after a BE form, and the position
\* after it holds a recorded rewrite.
C10_Witness ==
    /\ pc = "returned"
    /\ \E n \in 2..Len(display_tokens) :
          /\ display_tokens[n - 1] \in {"am", "is", "are", "was", "were"}
          /\ tokens[n] \notin DOMAIN BASE_VERB_TO_ING
          /\ (n - 1) \notin Recorded
          /\ n < Len(display_tokens)
          /\ n \in Recorded
          /\ display_tokens[n + 1] # tokens[n + 1]

\* ------------------------------------------- claims: preprocess_user_input

\* a letter of the claim: a-z, or A-Z before lowercasing
IsLetter(c) == c \in {"a", "b", "A"}

\* The maximal runs of letters of s, as spans <<first, last>> (1-based).
LetterSpans(s) ==
    {r \in (1..Len(s)) \X (1..Len(s)) :
        /\ r[1] <= r[2]
        /\ \A k \in r[1]..r[2] : IsLetter(s[k])
        /\ r[1] = 1 \/ ~IsLetter(s[r[1] - 1])
        /\ r[2] = Len(s) \/ ~IsLetter(s[r[2] + 1])}

\* The runs of a-z of s that no word character touches, as spans.
BoundedAsciiSpans(s) ==
    {r \in (1..Len(s)) \X (1..Len(s)) :
        /\ r[1] <= r[2]
        /\ \A k \in r[1]..r[2] : IsAsciiLower(s[k])
        /\ r[1] = 1 \/ ~IsWordChar(s[r[1] - 1])
        /\ r[2] = Len(s) \/ ~IsWordChar(s[r[2] + 1])}

\* The texts of a set of spans, in order of position.
RECURSIVE InOrder(_, _)
InOrder(s, R) ==
    IF R = {} THEN <<>>
    ELSE LET first == CHOOSE r \in R : \A o \in R : r[1] <= o[1]
         IN <<SubSeq(s, first[1], first[2])>> \o InOrder(s, R \ {first})

LetterRuns(s) == InOrder(s, LetterSpans(s))

BoundedAsciiRuns(s) == InOrder(s, BoundedAsciiSpans(s))

NoTokenHasNonLetter ==
    \A n \in 1..Len(found) : \A k \in 1..Len(found[n]) : IsLetter(found[n][k])

\* C6 as stated: the tokens are the maximal runs of letters of the lowercased
\* text, in order; no token contains a non-letter; a text without letters gives
\* no token.
C6_TokensAreLetterRuns ==
    tpc = "tokens" =>
        /\ found = LetterRuns(Lower(raw_text))
        /\ NoTokenHasNonLetter
        /\ ((\A k \in 1..Len(raw_text) : ~IsLetter(raw_text[k])) => found = <<>>)

\* C6 as amended: the tokens are, in order, the runs of the letters a-z of the
\* lowercased text that are bounded on both sides by the end of the text or by
\* a character that is no word character; a run of letters that touches a
\* digit, an underscore or a letter outside a-z gives no token.  No token contains
\* a non-letter, and a text without letters gives no token.
C6_TokensAreBoundedRuns ==
    tpc = "tokens" =>
        /\ found = BoundedAsciiRuns(Lower(raw_text))
        /\ NoTokenHasNonLetter
        /\ ((\A k \in 1..Len(raw_text) : ~IsLetter(raw_text[k])) => found = <<>>)

\* C6 witness: tokenization is done, a token was found, and a run of letters
\* next to a digit was left out.
C6_Witness ==
    /\ tpc = "tokens"
    /\ found # <<>>
    /\ \E k \in 1..(Len(text) - 1) : IsAsciiLower(text[k]) /\ text[k + 1] = "1"
    /\ Len(found) < Len(LetterRuns(text))

\* ------------------------------------------------------- claims: app.py

Exempt == FUNCTION_WORDS \cup AUX_VERBS

NonDecreasing(ds) == \A n, m \in 1..Len(ds) : n <= m => ds[n] <= ds[m]

\* The suggestion list the detector supplied for a word.
SuppliedFor(w) ==
    errors[Max({n \in 1..Len(errors) : errors[n].word = w})].suggestions

\* C8: the suggestions kept for a flagged word, and the lines written for it,
\* are in non-decreasing order of Levenshtein distance to the flagged word; the
\* lines are the kept suggestions in their order, and the distance shown on a
\* line is the distance of the flagged word to that suggestion (the sort key).
C8_SortedByEditDistance ==
    /\ \A w \in DOMAIN suggestion_map :
          NonDecreasing([n \in 1..Len(suggestion_map[w]) |->
                           Levenshtein(Chars[w], Chars[suggestion_map[w][n]])])
    /\ \A e \in 1..Len(details) :
          LET x == details[e] IN
          /\ NonDecreasing([n \in 1..Len(x.lines) |-> x.lines[n].dist])
          /\ x.lines # <<>> => x.word \in DOMAIN suggestion_map
          /\ \A n \in 1..Len(x.lines) :
                /\ x.lines[n].s = suggestion_map[x.word][n]
                /\ x.lines[n].dist = Levenshtein(Chars[x.word], Chars[x.lines[n].s])

\* C8 witness: an expander with three lines of which the last is farther than
\* the first, for a list the detector supplied in another order.
C8_Witness ==
    /\ apc = "done"
    /\ \E e \in 1..Len(details) :
          LET x == details[e] IN
          /\ Len(x.lines) = MaxSuggestions
          /\ x.lines[1].dist < x.lines[Len(x.lines)].dist
          /\ SuppliedFor(x.word) # suggestion_map[x.word]

\* the frequency of a word (0 for a word the table does not hold)
FrequencyOf(w) == IF w \in DOMAIN WORD_FREQ THEN WORD_FREQ[w] ELSE 0

\* The first of two suggestions comes first by frequency, then word.
TieBroken(a, b) ==
    \/ FrequencyOf(a) > FrequencyOf(b)
    \/ FrequencyOf(a) = FrequencyOf(b) /\ ~LexLess(Chars[b], Chars[a])

\* C9 as stated: of two lines with the same distance, the one with the higher
\* frequency is written first, and with equal frequencies the lexicographically
\* smaller one.
C9_TiesByFrequencyThenWord ==
    \A e \in 1..Len(details) :
        LET x == details[e] IN
        \A n, m \in 1..Len(x.lines) :
            (n < m /\ x.lines[n].dist = x.lines[m].dist) =>
                TieBroken(x.lines[n].s, x.lines[m].s)

\* The members of a list at a distance d of a word, in their order.
AtDistance(w, list, d) ==
    LET Same(x) == Levenshtein(Chars[w], Chars[x]) = d IN SelectSeq(list, Same)

\* C9 as amended: suggestions with the same edit distance are kept, and
\* written, in the order in which the detector supplied them; frequency and
\* lexicographic order play no part.
C9_TiesInSuppliedOrder ==
    /\ \A w \in DOMAIN suggestion_map :
          /\ Len(suggestion_map[w]) = Len(SuppliedFor(w))
          /\ \A n \in 1..Len(SuppliedFor(w)) :
                LET d == Levenshtein(Chars[w], Chars[SuppliedFor(w)[n]]) IN
                AtDistance(w, suggestion_map[w], d) = AtDistance(w, SuppliedFor(w), d)
    /\ \A e \in 1..Len(details) :
          \A n \in 1..Len(details[e].lines) :
              details[e].lines[n].s = suggestion_map[details[e].word][n]

\* C9 witness: two lines with the same distance are written in the supplied
\* order although the second has the higher frequency.
C9_Witness ==
    /\ apc = "done"
    /\ \E e \in 1..Len(details) :
          LET x == details[e] IN
          \E n, m \in 1..Len(x.lines) :
              /\ n < m
              /\ x.lines[n].dist = x.lines[m].dist
              /\ FrequencyOf(x.lines[n].s) < FrequencyOf(x.lines[m].s)
              /\ \E a, b \in 1..Len(SuppliedFor(x.word)) :
                    /\ a < b
                    /\ SuppliedFor(x.word)[a] = x.lines[n].s
                    /\ SuppliedFor(x.word)[b] = x.lines[m].s

====
